---- MODULE Spec2Model ----
(***************************************************************************)
(* A model of the 2048 game: the board engine (src/game/logic.ts, kept as  *)
(* src/unnamed/part_002) and the game loop of the App component            *)
(* (src/src/App.tsx).                                                      *)
(*                                                                         *)
(* A board is a sequence of rows, a row a sequence of numbers.  TLA+       *)
(* sequences start at 1, the source's arrays at 0: the source's            *)
(* board[r][c] is board[r + 1][c + 1] here.                                *)
(***************************************************************************)
EXTENDS Integers, Sequences, FiniteSets, TLC

VARIABLES boardSize, board, score, win, over, call

vars == <<boardSize, board, score, win, over, call>>
app == <<boardSize, board, score, win, over>>

(***************************************************************************)
(* Bounds of the model and constants of the program.                       *)
(***************************************************************************)
\* Engine specifications draw their boards from the sizes 2..MaxSize
MaxSize == 3
\* ... with tiles 2, 4, .., 2^MaxExp
MaxExp == 2
\* ... and from the boards of the default size with at most MaxTiles tiles
MaxTiles == 4
\* rotate is applied up to MaxRotations times in a row
MaxRotations == 4
\* Rows given to mergeRowLeft have 1..MaxRowLen cells
MaxRowLen == 4
\* ... with tiles 2, 4, .., 2^MaxRowExp
MaxRowExp == 3
\* handleSizeChange is given the sizes 0..MaxNewSize (and a non-number)
MaxNewSize == 2
\* Accepted moves are followed on the boards of the sizes up to MaxPlaySize
MaxPlaySize == 2
\* ... and from the late position of the end game for MaxLateMoves moves
MaxLateMoves == 1
\* useState(4), App.tsx line 6
DefaultSize == 4
\* next.flat().includes(2048), App.tsx line 35
WinTarget == 2048

(***************************************************************************)
(* Helpers.                                                                *)
(***************************************************************************)
RECURSIVE SumSeq(_)
SumSeq(s) == IF Len(s) = 0 THEN 0 ELSE s[1] + SumSeq(Tail(s))

\* The array a function on 1..n stands for, its elements computed once
Array(f) == SelectSeq(f, LAMBDA x : TRUE)

\* Array.prototype.reverse on a copy of r
reverse(r) == Array([i \in 1..Len(r) |-> r[Len(r) + 1 - i]])

Tiles(maxExp) == {2 ^ e : e \in 1..maxExp}

RowsOf(n, maxExp) == [1..n -> Tiles(maxExp) \cup {0}]

BoardsOf(n, maxExp) == [1..n -> RowsOf(n, maxExp)]

(***************************************************************************)
(* Arrays are objects: a heap is a sequence of arrays, a reference is an   *)
(* index into it.  A board is the array of the references of its rows.     *)
(***************************************************************************)
\* a board freshly stored: its rows at 1..n, the outer array at n + 1
StoreBoard(b) ==
    LET n == Len(b)
    IN  [heap |-> Array([i \in 1..(n + 1) |->
                      IF i <= n THEN b[i] ELSE Array([j \in 1..n |-> j])]),
         ref |-> n + 1]

\* the value of the board a reference points to
Deref(heap, ref) == Array([i \in 1..Len(heap[ref]) |-> heap[heap[ref][i]]])

(***************************************************************************)
(* The board engine.                                                       *)
(***************************************************************************)
emptyBoard(size) == Array([r \in 1..size |-> Array([c \in 1..size |-> 0])])

\* clone as [...b]: a new outer array of the same rows
cloneShallow(heap, b) ==
    [heap |-> Append(heap, heap[b]), ref |-> Len(heap) + 1]

\* b.map(r => [...r]): a new outer array of new rows
clone(heap, b) ==
    LET n == Len(heap[b])
        base == Len(heap)
    IN  [heap |-> Array([i \in 1..(base + n + 1) |->
                      IF i <= base THEN heap[i]
                      ELSE IF i <= base + n THEN heap[heap[b][i - base]]
                      ELSE Array([j \in 1..n |-> base + j])]),
         ref |-> base + n + 1]

\* the coordinates (0-based) of the empty cells, in row-major order
RECURSIVE emptyScan(_, _, _, _)
emptyScan(b, r, c, empty) ==
    IF ~(r < Len(b)) THEN empty
    ELSE IF ~(c < Len(b)) THEN emptyScan(b, r + 1, 0, empty)
    ELSE emptyScan(b, r, c + 1,
                   IF b[r + 1][c + 1] = 0 THEN Append(empty, <<r, c>>) ELSE empty)

\* addRandomTile on the board at ref; idx is Math.floor(Math.random() *
\* empty.length) and isTwo is Math.random() < 0.9
addRandomTile(heap, ref, idx, isTwo) ==
    LET empty == emptyScan(Deref(heap, ref), 0, 0, <<>>)
    IN  IF Len(empty) = 0 THEN [heap |-> heap, ref |-> ref]
        ELSE LET rc == empty[idx + 1]
                 value == IF isTwo THEN 2 ELSE 4
                 nb == clone(heap, ref)
                 row == nb.heap[nb.ref][rc[1] + 1]
             IN  [heap |-> [nb.heap EXCEPT ![row][rc[2] + 1] = value],
                  ref |-> nb.ref]

\* the number of empty cells: the range of idx
emptyCount(b) == Len(emptyScan(b, 0, 0, <<>>))

\* the board addRandomTile returns for a board given by value
addRandomTileOf(b, idx, isTwo) ==
    LET s == StoreBoard(b)
        r == addRandomTile(s.heap, s.ref, idx, isTwo)
    IN  Deref(r.heap, r.ref)

filterNonZero(row) == SelectSeq(row, LAMBDA v : v # 0)

\* the loop without its i++: the second tile of a merged pair is kept
RECURSIVE mergeLoopNoSkip(_, _, _, _)
mergeLoopNoSkip(filtered, i, merged, sc) ==
    IF ~(i < Len(filtered)) THEN [row |-> merged, score |-> sc]
    ELSE IF i + 1 < Len(filtered) /\ filtered[i + 1] = filtered[i + 2]
    THEN LET val == filtered[i + 1] * 2
         IN  mergeLoopNoSkip(filtered, i + 1, Append(merged, val), sc + val)
    ELSE mergeLoopNoSkip(filtered, i + 1, Append(merged, filtered[i + 1]), sc)

\* the loop with val = filtered[i]: a merged pair leaves a tile not doubled
RECURSIVE mergeLoopNoDouble(_, _, _, _)
mergeLoopNoDouble(filtered, i, merged, sc) ==
    IF ~(i < Len(filtered)) THEN [row |-> merged, score |-> sc]
    ELSE IF i + 1 < Len(filtered) /\ filtered[i + 1] = filtered[i + 2]
    THEN LET val == filtered[i + 1]
         IN  mergeLoopNoDouble(filtered, i + 2, Append(merged, val), sc + val)
    ELSE mergeLoopNoDouble(filtered, i + 1, Append(merged, filtered[i + 1]), sc)

\* the for loop of mergeRowLeft; i is the 0-based loop index.  An index past
\* the end reads undefined, which equals no number.
RECURSIVE mergeLoop(_, _, _, _)
mergeLoop(filtered, i, merged, sc) ==
    IF ~(i < Len(filtered)) THEN [row |-> merged, score |-> sc]
    ELSE IF i + 1 < Len(filtered) /\ filtered[i + 1] = filtered[i + 2]
    THEN LET val == filtered[i + 1] * 2
         IN  mergeLoop(filtered, i + 2, Append(merged, val), sc + val)
    ELSE mergeLoop(filtered, i + 1, Append(merged, filtered[i + 1]), sc)

\* padZeros with <= for <: one zero too many
RECURSIVE padZerosOneMore(_, _)
padZerosOneMore(merged, n) ==
    IF Len(merged) <= n THEN padZerosOneMore(Append(merged, 0), n) ELSE merged

RECURSIVE padZeros(_, _)
padZeros(merged, n) ==
    IF Len(merged) < n THEN padZeros(Append(merged, 0), n) ELSE merged

mergeRowLeft(row) ==
    LET m == mergeLoop(filterNonZero(row), 0, <<>>, 0)
    IN  [row |-> padZeros(m.row, Len(row)), score |-> m.score]

\* rotate without its reverse(): the transpose
rotateNoReverse(b) ==
    Array([c \in 1..Len(b[1]) |-> Array([r \in 1..Len(b) |-> b[r][c]])])

\* board[0].map((_, c) => board.map(r => r[c]).reverse())
rotate(b) ==
    Array([c \in 1..Len(b[1]) |-> reverse([r \in 1..Len(b) |-> b[r][c]])])

reverseRows(b) == Array([r \in 1..Len(b) |-> reverse(b[r])])

\* move that does not reverse the rows back after a move to the right
moveNoReverseBack(b, dir) ==
    LET w == IF dir = "right" THEN reverseRows(b)
             ELSE IF dir = "up" THEN rotate(b)
             ELSE IF dir = "down" THEN rotate(rotate(rotate(b)))
             ELSE b
        merges == Array([r \in 1..Len(w) |-> mergeRowLeft(w[r])])
        n0 == Array([r \in 1..Len(w) |-> merges[r].row])
    IN  [board |-> IF dir = "up" THEN rotate(rotate(rotate(n0)))
                   ELSE IF dir = "down" THEN rotate(n0)
                   ELSE n0,
         score |-> SumSeq([r \in 1..Len(w) |-> merges[r].score])]

move(b, dir) ==
    LET s == StoreBoard(b)
        cl == clone(s.heap, s.ref)
        w0 == Deref(cl.heap, cl.ref)
        w1 == IF dir = "up" THEN rotate(w0) ELSE w0
        w2 == IF dir = "right" THEN reverseRows(w1) ELSE w1
        working == IF dir = "down" THEN rotate(rotate(rotate(w2))) ELSE w2
        merges == Array([r \in 1..Len(working) |-> mergeRowLeft(working[r])])
        sc == SumSeq([r \in 1..Len(working) |-> merges[r].score])
        n0 == Array([r \in 1..Len(working) |-> merges[r].row])
        n1 == IF dir = "up" THEN rotate(rotate(rotate(n0))) ELSE n0
        n2 == IF dir = "right" THEN reverseRows(n1) ELSE n1
        newBoard == IF dir = "down" THEN rotate(n2) ELSE n2
    IN  [board |-> newBoard, score |-> sc]

\* hasMoves without the check of the bottom neighbour
hasMovesNoVertical(b) ==
    \E r \in 0..(Len(b) - 1), c \in 0..(Len(b) - 1) :
        \/ b[r + 1][c + 1] = 0
        \/ c + 1 < Len(b) /\ b[r + 1][c + 1] = b[r + 1][c + 2]

\* hasMoves that looks for an empty cell only
hasMovesEmptyOnly(b) ==
    \E r \in 0..(Len(b) - 1), c \in 0..(Len(b) - 1) : b[r + 1][c + 1] = 0

hasMoves(b) ==
    \E r \in 0..(Len(b) - 1), c \in 0..(Len(b) - 1) :
        \/ b[r + 1][c + 1] = 0
        \/ c + 1 < Len(b) /\ b[r + 1][c + 1] = b[r + 1][c + 2]
        \/ r + 1 < Len(b) /\ b[r + 1][c + 1] = b[r + 2][c + 1]

Directions == {"left", "right", "up", "down"}

(***************************************************************************)
(* The App state while an engine function is exercised on its own.         *)
(***************************************************************************)
AppIdle ==
    /\ boardSize = DefaultSize
    /\ board = emptyBoard(DefaultSize)
    /\ score = 0
    /\ win = FALSE
    /\ over = FALSE

(***************************************************************************)
(* mergeRowLeft on every row within the bounds.                            *)
(***************************************************************************)
RowInit ==
    /\ AppIdle
    /\ \E n \in 1..MaxRowLen : \E row \in RowsOf(n, MaxRowExp) :
           call = [fn |-> "none", arg |-> row]

MergeRow ==
    /\ call.fn = "none"
    /\ call' = [fn |-> "mergeRowLeft", arg |-> call.arg,
                ret |-> mergeRowLeft(call.arg)]
    /\ UNCHANGED app

RowNext == MergeRow

RowSpec == RowInit /\ [][RowNext]_vars

(***************************************************************************)
(* move on every board within the bounds, in every direction.              *)
(***************************************************************************)
\* the boards of size n with tiles on exactly the cells of P, as f gives them
BoardWith(n, P, f) ==
    Array([r \in 1..n |->
              Array([c \in 1..n |-> IF <<r, c>> \in P THEN f[<<r, c>>] ELSE 0])])

\* the sets of at most maxTiles cells of a board of size n
CellSets(n, maxTiles) ==
    {Q \in SUBSET ((1..n) \X (1..n)) : Cardinality(Q) <= maxTiles}

\* every board of the sizes 2..MaxSize as the argument of a call to come
SmallBoardInit ==
    /\ AppIdle
    /\ \E n \in 2..MaxSize : \E b \in BoardsOf(n, MaxExp) :
           call = [fn |-> "none", arg |-> b]

\* every board of the default size with at most MaxTiles tiles
SparseBoardInit ==
    /\ AppIdle
    /\ \E P \in CellSets(DefaultSize, MaxTiles) : \E f \in [P -> Tiles(MaxExp)] :
           call = [fn |-> "none", arg |-> BoardWith(DefaultSize, P, f)]

BoardInit == SmallBoardInit \/ SparseBoardInit

Move(dir) ==
    /\ call.fn = "none"
    /\ call' = [fn |-> "move", arg |-> call.arg, dir |-> dir,
                ret |-> move(call.arg, dir)]
    /\ UNCHANGED app

MoveNext == \E dir \in Directions : Move(dir)

MoveSpec == BoardInit /\ [][MoveNext]_vars

(***************************************************************************)
(* rotate, applied up to MaxRotations times in a row to every board.       *)
(***************************************************************************)
Rotate ==
    /\ call.fn \in {"none", "rotate"}
    /\ call.fn = "rotate" => call.n < MaxRotations
    /\ call' = [fn |-> "rotate", arg |-> call.arg,
                n |-> IF call.fn = "none" THEN 1 ELSE call.n + 1,
                ret |-> rotate(IF call.fn = "none" THEN call.arg ELSE call.ret)]
    /\ UNCHANGED app

RotateNext == Rotate

RotateSpec == BoardInit /\ [][RotateNext]_vars

(***************************************************************************)
(* hasMoves on every board.                                                *)
(***************************************************************************)
HasMoves ==
    /\ call.fn = "none"
    /\ call' = [fn |-> "hasMoves", arg |-> call.arg, ret |-> hasMoves(call.arg)]
    /\ UNCHANGED app

TerminalNext == HasMoves

TerminalSpec == BoardInit /\ [][TerminalNext]_vars

(***************************************************************************)
(* addRandomTile on every small board, with every outcome of Math.random.  *)
(* after is the caller's board once the call has returned.                 *)
(***************************************************************************)
AddRandomTile ==
    /\ call.fn = "none"
    /\ \E idx \in 0..(emptyCount(call.arg) - 1) \cup {0}, isTwo \in BOOLEAN :
           LET s == StoreBoard(call.arg)
               r == addRandomTile(s.heap, s.ref, idx, isTwo)
           IN  call' = [fn |-> "addRandomTile", arg |-> call.arg,
                        idx |-> idx, isTwo |-> isTwo,
                        ret |-> Deref(r.heap, r.ref),
                        after |-> Deref(r.heap, s.ref)]
    /\ UNCHANGED app

SpawnNext == AddRandomTile

SpawnSpec == SmallBoardInit /\ [][SpawnNext]_vars

\* column c (0-based) of b, read from row 0 downward
Column(b, c) == Array([r \in 1..Len(b) |-> b[r][c + 1]])

\* the sum of the cells of b
Mass(b) == SumSeq([r \in 1..Len(b) |-> SumSeq(b[r])])

\* the cells of b, 0-based
Cells(b) == (0..(Len(b) - 1)) \X (0..(Len(b) - 1))

At(b, p) == b[p[1] + 1][p[2] + 1]

\* b with the cell p set to v
With(b, p, v) == [b EXCEPT ![p[1] + 1][p[2] + 1] = v]

\* the number of tiles of b
TileCount(b) ==
    SumSeq([r \in 1..Len(b) |-> Len(SelectSeq(b[r], LAMBDA v : v # 0))])

(***************************************************************************)
(* The game loop of App.tsx.                                               *)
(***************************************************************************)
\* JSON.stringify of an array of numbers, as its tokens: a number n >= 0 is
\* the token n, "[" is -1, "]" is -2 and "," is -3
RECURSIVE joinTokens(_)
joinTokens(parts) ==
    IF Len(parts) = 0 THEN <<>>
    ELSE IF Len(parts) = 1 THEN parts[1]
    ELSE parts[1] \o <<-3>> \o joinTokens(Tail(parts))

stringifyRow(row) ==
    <<-1>> \o joinTokens([i \in 1..Len(row) |-> <<row[i]>>]) \o <<-2>>

stringify(b) ==
    <<-1>> \o joinTokens([r \in 1..Len(b) |-> stringifyRow(b[r])]) \o <<-2>>

\* the boards addRandomTile can return for b
spawns(b) ==
    {addRandomTileOf(b, idx, isTwo) :
        idx \in 0..(emptyCount(b) - 1) \cup {0}, isTwo \in BOOLEAN}

\* the boards addRandomTile(addRandomTile(emptyBoard(size))) can give, for
\* every size a game has
newGame ==
    Array([size \in 1..(IF MaxNewSize > DefaultSize THEN MaxNewSize ELSE DefaultSize) |->
              {n \in UNION {spawns(b) : b \in spawns(emptyBoard(size))} : TRUE}])

\* next.flat().includes(2048)
includesTarget(b) == \E r \in 1..Len(b) : \E c \in 1..Len(b[r]) : b[r][c] = WinTarget

\* A position late in a game of the default size, two 1024 tiles in one
\* column: the board and the score after 522 accepted moves from the new
\* game [[4,4,0,0],[0,0,0,0],[0,0,0,0],[0,0,0,0]].
LateGame ==
    [board |-> << <<4, 0, 0, 0>>,
                  <<16, 0, 0, 0>>,
                  <<8, 1024, 0, 0>>,
                  <<4, 1024, 16, 0>> >>,
     score |-> 16456]

\* nb is the late position moved, or moved again after fewer than
\* MaxLateMoves spawns (a move keeps the sum of the cells, a spawn adds 2 or
\* more to it)
Late(nb) ==
    /\ Len(nb) = Len(LateGame.board)
    /\ Mass(nb) >= Mass(LateGame.board)
    /\ Mass(nb) < Mass(LateGame.board) + 2 * MaxLateMoves

\* the boards addRandomTile can return for nb that the model follows
Followed(nb) == IF Len(nb) <= MaxPlaySize \/ Late(nb) THEN spawns(nb) ELSE {}

Init ==
    /\ boardSize = DefaultSize
    /\ board \in newGame[boardSize]
    /\ score = 0
    /\ win = FALSE
    /\ over = FALSE
    /\ call = [fn |-> "none"]

\* handleMove without its comparison of the boards: every move spawns
handleMoveNoCompare(dir) ==
    \E m \in {move(board, dir)} :
        \E next \in Followed(m.board) :
            /\ board' = next
            /\ score' = score + m.score
            /\ win' = (win \/ includesTarget(next))
            /\ over' = (over \/ ~hasMoves(next))
            /\ call' = [fn |-> "handleMove", dir |-> dir]
            /\ UNCHANGED boardSize

\* handleMove without its check for the end of the game
handleMoveNoOver(dir) ==
    \E m \in {move(board, dir)} :
        IF stringify(m.board) = stringify(board)
        THEN /\ call' = [fn |-> "handleMove", dir |-> dir]
             /\ UNCHANGED app
        ELSE \E next \in Followed(m.board) :
                 /\ board' = next
                 /\ score' = score + m.score
                 /\ win' = (win \/ includesTarget(next))
                 /\ call' = [fn |-> "handleMove", dir |-> dir]
                 /\ UNCHANGED <<boardSize, over>>

\* handleMove looking for the target in the board of the last render
handleMoveStaleWin(dir) ==
    \E m \in {move(board, dir)} :
        IF stringify(m.board) = stringify(board)
        THEN /\ call' = [fn |-> "handleMove", dir |-> dir]
             /\ UNCHANGED app
        ELSE \E next \in Followed(m.board) :
                 /\ board' = next
                 /\ score' = score + m.score
                 /\ win' = (win \/ includesTarget(board))
                 /\ over' = (over \/ ~hasMoves(next))
                 /\ call' = [fn |-> "handleMove", dir |-> dir]
                 /\ UNCHANGED boardSize

\* m is { board: nb, score: s }, the result of move(board, dir)
handleMove(dir) ==
    \E m \in {move(board, dir)} :
        IF stringify(m.board) = stringify(board)
        THEN /\ call' = [fn |-> "handleMove", dir |-> dir]
             /\ UNCHANGED app
        ELSE \E next \in Followed(m.board) :
                 /\ board' = next
                 /\ score' = score + m.score
                 /\ win' = (win \/ includesTarget(next))
                 /\ over' = (over \/ ~hasMoves(next))
                 /\ call' = [fn |-> "handleMove", dir |-> dir]
                 /\ UNCHANGED boardSize

keyMap ==
    [ArrowUp |-> "up", ArrowDown |-> "down", ArrowLeft |-> "left",
     ArrowRight |-> "right", w |-> "up", a |-> "left", s |-> "down", d |-> "right"]

\* the keys pressed: those of keyMap and one that is not in it
Keys == DOMAIN keyMap \cup {"Enter"}

\* the keydown listener
onKey(key) ==
    IF over \/ key \notin DOMAIN keyMap
    THEN /\ call' = [fn |-> "onKey"]
         /\ UNCHANGED app
    ELSE handleMove(keyMap[key])

\* the on-screen direction buttons
onClick(dir) == handleMove(dir)

restart ==
    /\ board' \in newGame[boardSize]
    /\ score' = 0
    /\ over' = FALSE
    /\ call' = [fn |-> "restart"]
    /\ UNCHANGED <<boardSize, win>>

\* newSize is parseInt(e.target.value, 10), isNaN whether it is NaN
handleSizeChange(isNaN, newSize) ==
    /\ call' = [fn |-> "handleSizeChange"]
    /\ IF ~isNaN /\ newSize > 1
       THEN /\ boardSize' = newSize
            /\ board' \in newGame[newSize]
            /\ score' = 0
            /\ over' = FALSE
            /\ UNCHANGED win
       ELSE UNCHANGED app

Next ==
    \/ \E key \in Keys : onKey(key)
    \/ \E dir \in Directions : onClick(dir)
    \/ restart
    \/ \E isNaN \in BOOLEAN, newSize \in 0..MaxNewSize : handleSizeChange(isNaN, newSize)

Spec == Init /\ [][Next]_vars

\* the game taken up at the late position
LateInit ==
    /\ boardSize = Len(LateGame.board)
    /\ board = LateGame.board
    /\ score = LateGame.score
    /\ win = FALSE
    /\ over = FALSE
    /\ call = [fn |-> "none"]

EndGameSpec == LateInit /\ [][Next]_vars

Moved == call.fn = "move"

\* C1: move(B, 'up') packs every column toward row 0: each column of the
\* result read downward is mergeRowLeft of that column of B read downward;
\* move(B, 'down') packs toward row N-1: each column of the result read
\* upward is mergeRowLeft of that column of B read upward.
C1_UpDownPackTowardNamedEdge ==
    Moved =>
        \A c \in 0..(Len(call.arg) - 1) :
            /\ call.dir = "up" =>
                   Column(call.ret.board, c) = mergeRowLeft(Column(call.arg, c)).row
            /\ call.dir = "down" =>
                   reverse(Column(call.ret.board, c))
                       = mergeRowLeft(reverse(Column(call.arg, c))).row

ExampleBoard == <<<<2, 2, 0, 0>>, <<4, 0, 4, 0>>, <<0, 0, 0, 0>>, <<0, 0, 0, 0>>>>

ExampleLeft == <<<<4, 0, 0, 0>>, <<8, 0, 0, 0>>, <<0, 0, 0, 0>>, <<0, 0, 0, 0>>>>

\* C2: move(B, 'left') merges every row of B to the left, move(B, 'right')
\* gives for every row the reverse of mergeRowLeft of the reversed row, the
\* score is the sum of the rows' merge scores, and left on the example board
\* gives the example result with score 12.
C2_LeftRightRowwise ==
    Moved =>
        LET b == call.arg
            rows == 1..Len(b)
        IN  /\ call.dir = "left" =>
                   /\ Len(call.ret.board) = Len(b)
                   /\ \A r \in rows : call.ret.board[r] = mergeRowLeft(b[r]).row
                   /\ call.ret.score
                          = SumSeq([r \in rows |-> mergeRowLeft(b[r]).score])
                   /\ b = ExampleBoard =>
                          call.ret = [board |-> ExampleLeft, score |-> 12]
            /\ call.dir = "right" =>
                   /\ Len(call.ret.board) = Len(b)
                   /\ \A r \in rows :
                          call.ret.board[r] = reverse(mergeRowLeft(reverse(b[r])).row)
                   /\ call.ret.score
                          = SumSeq([r \in rows |-> mergeRowLeft(reverse(b[r])).score])

C2_Witness ==
    /\ Moved
    /\ call.dir = "left"
    /\ call.arg = ExampleBoard
    /\ call.ret.score = 12

\* C3 as stated: the cells of move(B, d).board sum to the cells of B plus
\* the score move returns.
C3_MassGrowsByScore ==
    Moved => Mass(call.ret.board) = Mass(call.arg) + call.ret.score

\* C3, amended: a move conserves the tile mass: the cells of move(B, d).board
\* sum to the cells of B, whatever score the move returns.
C3_MassConserved ==
    Moved => Mass(call.ret.board) = Mass(call.arg)

C3_Witness ==
    /\ Moved
    /\ call.dir = "down"
    /\ call.ret.score > 0
    /\ call.ret.board # call.arg

RECURSIVE pairwise(_)
\* the row of tiles f merged pairwise from the left, each tile in at most
\* one merge
pairwise(f) ==
    IF Len(f) = 0 THEN <<>>
    ELSE IF Len(f) >= 2 /\ f[1] = f[2]
    THEN <<2 * f[1]>> \o pairwise(SubSeq(f, 3, Len(f)))
    ELSE <<f[1]>> \o pairwise(Tail(f))

RECURSIVE pairwiseScore(_)
\* the sum of the doubled values of those merges
pairwiseScore(f) ==
    IF Len(f) < 2 THEN 0
    ELSE IF f[1] = f[2] THEN 2 * f[1] + pairwiseScore(SubSeq(f, 3, Len(f)))
    ELSE pairwiseScore(Tail(f))

Merged == call.fn = "mergeRowLeft"

\* C4: mergeRowLeft drops the zeros, merges pairwise and greedily from the
\* left, each tile in at most one merge and no merged tile merging again,
\* pads with zeros on the right to the length of the row, and scores the sum
\* of the doubled values; [2,2,2,0] gives [4,2,0,0] with 4, [2,2,4,0] gives
\* [4,4,0,0] with 4, [2,4,4,8] gives [2,8,8,0] with 8.
C4_MergePairwiseGreedy ==
    Merged =>
        LET tiles == SelectSeq(call.arg, LAMBDA v : v > 0)
            out == pairwise(tiles)
        IN  /\ Len(call.ret.row) = Len(call.arg)
            /\ SubSeq(call.ret.row, 1, Len(out)) = out
            /\ \A i \in (Len(out) + 1)..Len(call.arg) : call.ret.row[i] = 0
            /\ call.ret.score = pairwiseScore(tiles)
            /\ call.arg = <<2, 2, 2, 0>> =>
                   call.ret = [row |-> <<4, 2, 0, 0>>, score |-> 4]
            /\ call.arg = <<2, 2, 4, 0>> =>
                   call.ret = [row |-> <<4, 4, 0, 0>>, score |-> 4]
            /\ call.arg = <<2, 4, 4, 8>> =>
                   call.ret = [row |-> <<2, 8, 8, 0>>, score |-> 8]

C4_Witness ==
    /\ Merged
    /\ call.arg = <<2, 2, 2, 0>>
    /\ call.ret = [row |-> <<4, 2, 0, 0>>, score |-> 4]

Abs(x) == IF x < 0 THEN -x ELSE x

\* p and q are next to each other in a row or in a column
Adjacent(p, q) == Abs(p[1] - q[1]) + Abs(p[2] - q[2]) = 1

NoZero(b) == \A p \in Cells(b) : At(b, p) # 0

NoEqualNeighbours(b) ==
    \A p, q \in Cells(b) : Adjacent(p, q) => At(b, p) # At(b, q)

Asked == call.fn = "hasMoves"

\* C5: hasMoves(B) is false exactly when B has no empty cell and no two
\* cells next to each other in a row or a column hold the same value; from
\* such a board, emptying any one cell or making any one pair of neighbours
\* equal makes hasMoves true.
C5_HasMovesExact ==
    Asked =>
        LET b == call.arg
        IN  /\ call.ret = FALSE <=> NoZero(b) /\ NoEqualNeighbours(b)
            /\ call.ret = FALSE =>
                   /\ \A p \in Cells(b) : hasMoves(With(b, p, 0))
                   /\ \A p, q \in Cells(b) :
                          Adjacent(p, q) => hasMoves(With(b, p, At(b, q)))

C5_Witness ==
    /\ Asked
    /\ call.ret = FALSE
    /\ Len(call.arg) = 3

\* some move changes b
SomeMoveChanges(b) == \E d \in Directions : move(b, d).board # b

\* C6 as stated: hasMoves(B) is true exactly when some direction's move
\* gives a board that differs from B.
C6_HasMovesIffMoveChanges ==
    Asked => (call.ret = TRUE <=> SomeMoveChanges(call.arg))

\* C6, amended: on a board with at least one tile, hasMoves(B) is true
\* exactly when some direction's move gives a board that differs from B; on
\* the board without tiles hasMoves is true and no move changes the board.
C6_HasMovesIffMoveChangesWithTile ==
    Asked =>
        IF \E p \in Cells(call.arg) : At(call.arg, p) # 0
        THEN call.ret = TRUE <=> SomeMoveChanges(call.arg)
        ELSE call.ret = TRUE /\ ~SomeMoveChanges(call.arg)

C6_Witness ==
    /\ Asked
    /\ call.ret = TRUE
    /\ NoZero(call.arg)
    /\ \E p, q \in Cells(call.arg) :
           p[1] + 1 = q[1] /\ p[2] = q[2] /\ At(call.arg, p) = At(call.arg, q)

Spawned == call.fn = "addRandomTile"

\* C7: on a board without an empty cell addRandomTile returns the board it
\* was given; otherwise the result differs from B in exactly one cell, which
\* was 0 in B and is 2 or 4 in the result, and every empty cell of B can be
\* the one; B itself is as it was once the call has returned.
C7_SpawnOneTile ==
    Spawned =>
        LET b == call.arg
            zeros == {p \in Cells(b) : At(b, p) = 0}
            changed == {p \in Cells(b) : At(call.ret, p) # At(b, p)}
            outcomes == {addRandomTileOf(b, idx, isTwo) :
                            idx \in 0..(Cardinality(zeros) - 1), isTwo \in BOOLEAN}
        IN  /\ Len(call.ret) = Len(b)
            /\ \A r \in 1..Len(b) : Len(call.ret[r]) = Len(b)
            /\ call.after = b
            /\ zeros = {} => call.ret = b
            /\ zeros # {} =>
                   /\ Cardinality(changed) = 1
                   /\ \A p \in changed : p \in zeros /\ At(call.ret, p) \in {2, 4}
                   /\ \A p \in zeros, v \in {2, 4} : With(b, p, v) \in outcomes

C7_Witness ==
    /\ Spawned
    /\ Len(call.arg) = 3
    /\ call.isTwo = FALSE
    /\ call.ret # call.arg
    /\ call.after = call.arg

Rotated == call.fn = "rotate"

\* C8: rotate puts the element at (r, c) at (c, N-1-r), and four rotations
\* in a row give the board back.
C8_RotateQuarterTurn ==
    Rotated =>
        LET b == call.arg
            n == Len(b)
        IN  /\ call.n = 1 =>
                   /\ Len(call.ret) = n
                   /\ \A p \in Cells(b) :
                          Len(call.ret[p[2] + 1]) = n
                              /\ At(call.ret, <<p[2], n - 1 - p[1]>>) = At(b, p)
            /\ call.n = 4 => call.ret = b

C8_Witness ==
    /\ Rotated
    /\ call.n = 4
    /\ Len(call.arg) = 3
    /\ call.arg[1][1] # call.arg[1][3]
    /\ call.ret = call.arg

\* C9: handleMove(d) spawns only after a move that changes the board: when
\* move(board, d).board equals the board, the board, the score, win and over
\* stay as they are and the move's score is 0; otherwise the new board is
\* addRandomTile applied once to the moved board and the score grows by
\* the move's score.
C9_SpawnOnlyAfterChange ==
    [][call'.fn = "handleMove" =>
          \A m \in {move(board, call'.dir)} :
              IF m.board = board
              THEN m.score = 0 /\ UNCHANGED app
              ELSE /\ Len(board') = Len(board)
                   /\ \E p \in Cells(board) :
                          /\ At(m.board, p) = 0
                          /\ At(board', p) \in {2, 4}
                          /\ board' = With(m.board, p, At(board', p))
                   /\ score' = score + m.score]_vars

C9_Witness ==
    /\ call.fn = "handleMove"
    /\ score > 0
    /\ TileCount(board) = 3

\* C10: in every state of the game, over is true exactly when the board
\* has no move left.
C10_OverIffNoMoves == over = ~hasMoves(board)

C10_Witness ==
    /\ over
    /\ ~hasMoves(board)
    /\ call.fn = "handleMove"

\* v is 2, 4, 8, ...: halving it ends at 2
RECURSIVE IsPowerOfTwo(_)
IsPowerOfTwo(v) ==
    IF v < 2 THEN FALSE
    ELSE IF v = 2 THEN TRUE
    ELSE v % 2 = 0 /\ IsPowerOfTwo(v \div 2)

\* C11: in every state of the game the board has exactly boardSize rows of
\* exactly boardSize cells, and every cell is 0 or a power of two that is
\* at least 2.
C11_BoardWellFormed ==
    /\ boardSize >= 2
    /\ Len(board) = boardSize
    /\ \A r \in 1..Len(board) :
           /\ Len(board[r]) = boardSize
           /\ \A c \in 1..Len(board[r]) :
                  board[r][c] = 0 \/ IsPowerOfTwo(board[r][c])

\* a board changed by merges, after a resize: a tile above 4 after an
\* accepted move on a board that is not of the default size
C11_Witness ==
    /\ call.fn = "handleMove"
    /\ boardSize # DefaultSize
    /\ score > 0
    /\ \E p \in Cells(board) : At(board, p) > 4

\* C12: while win is false, a step makes it true exactly when the step is
\* an accepted move (handleMove on a board the move changes) whose board
\* after the spawn has a cell equal to WinTarget; so win is false as long
\* as no accepted move has left such a board.
C12_WinExactlyOnTarget ==
    [][~win =>
          (win' <=> /\ call'.fn = "handleMove"
                    /\ move(board, call'.dir).board # board
                    /\ \E p \in Cells(board') : At(board', p) = WinTarget)]_vars

\* the winning move was made: the two 1024 tiles merged
C12_Witness ==
    /\ win
    /\ call.fn = "handleMove"
    /\ \E p \in Cells(board) : At(board, p) = WinTarget

\* C13: for the board of the game and every direction d, if move(board, d)
\* returns a board that differs from it, that board has a cell equal to 0;
\* and after an accepted move handleMove leaves a board with exactly one
\* tile more than the moved board.
C13_AcceptedMoveLeavesRoom ==
    [][call'.fn = "handleMove" =>
          /\ \A d \in Directions :
                 \A m \in {move(board, d)} :
                     m.board # board =>
                         \E p \in Cells(m.board) : At(m.board, p) = 0
          /\ \A m \in {move(board, call'.dir)} :
                 m.board # board =>
                     TileCount(board') = TileCount(m.board) + 1]_vars

\* a full board with a move left, after handleMove and at least one merge:
\* the spawn took the last empty cell
C13_Witness ==
    /\ call.fn = "handleMove"
    /\ score > 0
    /\ TileCount(board) = boardSize * boardSize
    /\ hasMoves(board)

\* C14: from a state in which over is true, a step of a move input (onKey,
\* which returns early, or handleMove called by a direction button) leaves
\* the board and the score unchanged.
C14_OverFreezesBoard ==
    [][over /\ call'.fn \in {"onKey", "handleMove"} =>
          board' = board /\ score' = score]_vars

\* a key was pressed after the end of a game in which tiles merged
C14_Witness ==
    /\ over
    /\ call.fn = "onKey"
    /\ score > 0

\* C15: after restart, and after handleSizeChange with a valid size, the
\* game is a fresh game: a board of the current size with exactly two
\* tiles, each 2 or 4, score 0, over false and win false.
C15_RestartFreshGame ==
    [][\/ call'.fn = "restart"
       \/ call'.fn = "handleSizeChange" /\ app' # app
       => /\ Len(board') = boardSize'
          /\ \A r \in 1..Len(board') : Len(board'[r]) = boardSize'
          /\ TileCount(board') = 2
          /\ \A p \in Cells(board') : At(board', p) \in {0, 2, 4}
          /\ score' = 0
          /\ ~over'
          /\ ~win']_vars

====
